---------------------------- MODULE Spec2Model ----------------------------
(***************************************************************************)
(* A model of the linear chain assembler (polymerist/polymers/building.py) *)
(* and of the reaction engine wrappers (rdutils/reactions/reactors.py).    *)
(*                                                                         *)
(* Each entry point is a synchronous call: its inputs are drawn when the   *)
(* call is set up in its Init, and one action runs the whole call.  The    *)
(* three specifications SpecBuild, SpecReact and SpecPropagate share the   *)
(* variables; each leaves the other parts at their idle values.            *)
(***************************************************************************)
EXTENDS Integers, Sequences, FiniteSets, TLC

VARIABLES
    monomers,         \* build_linear_polymer: the MonomerGroup argument
    n_monomers,       \* build_linear_polymer: target chain length
    sequence,         \* build_linear_polymer: block sequence (a string)
    add_Hs,           \* build_linear_polymer: flag handed to chain.build
    energy_minimize,  \* build_linear_polymer: flag
    blp,              \* what the call did: outcome and collaborator calls
    reactor_class,    \* "Reactor" or "AdditionReactor"
    rxn_schema,       \* Reactor.rxn_schema
    has_reacted,      \* Reactor._has_reacted
    reactants,        \* react: the reactant Mols, each as the reactant_idx its atoms carry
    repetitions,      \* react: argument
    clear_props,      \* react: argument
    raw_products,     \* react: what rxn_schema.RunReactants returns for this call
    rx,               \* react: outcome and return value
    before,           \* react: reactants and has_reacted when the call was entered
    pf_product,       \* polymerized_fragments: the product argument
    pf_paths,         \* polymerized_fragments: the engine's shortest-path answers
    pf_separate,      \* polymerized_fragments: argument
    pf,               \* polymerized_fragments: outcome and return value
    prop_monomers,    \* propagate: the monomers argument
    gen,              \* propagate: the generator (where it stands, its reactants)
    requests,         \* propagate: items the consumer has requested so far
    yielded,          \* propagate: the items delivered, in order
    reaction_log      \* propagate: the react calls made, in order

buildVars == <<monomers, n_monomers, sequence, add_Hs, energy_minimize, blp>>
reactVars == <<reactor_class, rxn_schema, has_reacted, reactants, repetitions, clear_props,
               raw_products, rx, before>>
fragVars == <<pf_product, pf_paths, pf_separate, pf>>
propVars == <<prop_monomers, gen, requests, yielded, reaction_log>>
vars == <<buildVars, reactVars, fragVars, propVars>>

(***************************************************************************)
(* Bounds of the model.                                                    *)
(***************************************************************************)
MaxLib == 3       \* monomer definitions (resnames) in a library
MaxN == 5         \* largest n_monomers tried
MaxSeqLen == 2    \* longest block sequence tried
MaxReactants == 3 \* most reactants handed to react
MaxReps == 2      \* largest repetitions handed to react
MaxSteps == 3     \* most items a consumer requests from propagate

Min(a, b) == IF a < b THEN a ELSE b

(***************************************************************************)
(* MonomerGroup.  A library is a list of monomer definitions in dict       *)
(* order; the resname of a definition is its position.  A definition is    *)
(* the list of its fragments, a fragment being its number of linker atoms  *)
(* (ports): 1 = terminal, 2 = middle, 3 = branched.                        *)
(***************************************************************************)
DefShapes == {<<1>>, <<2>>, <<3>>, <<1, 1>>, <<2, 2>>}

RECURSIVE LibrariesOfLen(_)
LibrariesOfLen(k) ==
    IF k = 0 THEN {<<>>}
    ELSE {Append(l, d) : l \in LibrariesOfLen(k - 1), d \in DefShapes}

Libraries == UNION {LibrariesOfLen(k) : k \in 0..MaxLib}

\* The declared terminal orientation: none (<<>>), or the resnames declared
\* head and tail (head listed before tail in the library).
DeclaredOrients(defs) ==
    {<<>>} \cup {p \in (1..Len(defs)) \X (1..Len(defs)) : p[1] < p[2]}

MonomerGroups ==
    UNION {{[defs |-> l, term_orient |-> o] : o \in DeclaredOrients(l)} : l \in Libraries}

is_terminal(ports) == ports = 1

RECURSIVE AllFrags(_, _)
AllFrags(defs, i) ==
    IF i > Len(defs) THEN <<>>
    ELSE [j \in 1..Len(defs[i]) |-> [resname |-> i, frag |-> j, ports |-> defs[i][j]]]
            \o AllFrags(defs, i + 1)

\* iter_rdmols(term_only): the (resname, fragment) pairs in library order,
\* filtered by is_terminal(fragment) = term_only.
iter_rdmols(m, term_only) ==
    SelectSeq(AllFrags(m.defs, 1), LAMBDA f : is_terminal(f.ports) = term_only)

\* has_valid_linear_term_orient: a head and a tail are declared, for
\* resnames of the library.
has_valid_linear_term_orient(m) ==
    /\ Len(m.term_orient) = 2
    /\ m.term_orient[1] \in 1..Len(m.defs)
    /\ m.term_orient[2] \in 1..Len(m.defs)
    /\ m.term_orient[1] # m.term_orient[2]

\* is_linear: no fragment of the group has more than two linker atoms.
is_linear(defs, selected) ==
    \A i \in selected : \A j \in 1..Len(defs[i]) : defs[i][j] \in {1, 2}

\* unique_string(sequence, preserve_order=True)
RECURSIVE unique_string(_)
unique_string(s) ==
    IF s = <<>> THEN <<>>
    ELSE LET init == unique_string(SubSeq(s, 1, Len(s) - 1))
             c == s[Len(s)]
         IN  IF \E i \in 1..Len(init) : init[i] = c THEN init ELSE Append(init, c)

Alphabet == {"A", "B"}

RECURSIVE StringsOfLen(_)
StringsOfLen(k) ==
    IF k = 0 THEN {<<>>}
    ELSE {Append(s, c) : s \in StringsOfLen(k - 1), c \in Alphabet}

Strings == UNION {StringsOfLen(k) : k \in 0..MaxSeqLen}

(***************************************************************************)
(* build_linear_polymer, step 0: the terminal orientation mapping, a dict  *)
(* kept as its list of (resname, orientation) items in insertion order.    *)
(***************************************************************************)
InferredOrient(m) ==
    LET terms == iter_rdmols(m, TRUE)
        k == Min(Len(terms), 2)       \* zip(..., ['head', 'tail'])
    IN  IF k = 0 THEN <<>>
        ELSE IF k = 1 THEN <<[resname |-> terms[1].resname, orient |-> "head"]>>
        ELSE IF terms[1].resname = terms[2].resname
             THEN <<[resname |-> terms[1].resname, orient |-> "tail"]>>  \* one dict key, last value
        ELSE <<[resname |-> terms[1].resname, orient |-> "head"],
               [resname |-> terms[2].resname, orient |-> "tail"]>>

TermOrient(m) ==
    IF has_valid_linear_term_orient(m)
    THEN <<[resname |-> m.term_orient[1], orient |-> "head"],
           [resname |-> m.term_orient[2], orient |-> "tail"]>>
    ELSE InferredOrient(m)

(***************************************************************************)
(* Step 1: the arithmetic gate.  Python's % and // with a positive divisor *)
(* are the floored modulus and quotient, which are TLA+'s % and \div.      *)
(***************************************************************************)
PyMod(a, b) == a % b
PyFloorDiv(a, b) == a \div b

NSeqRepsNoTerminals(n, t, b) == PyFloorDiv(n, b)
NSeqReps(n, t, b) == PyFloorDiv(n - t, b)

GateAllowsDimers(n, t, b) ==
    IF b = 0 THEN "ZeroDivisionError"
    ELSE IF PyMod(n - t, b) # 0 THEN "ValueError"
    ELSE IF NSeqReps(n, t, b) < 0 THEN "InsufficientChainLengthError"
    ELSE "pass"
GateLengthFirst(n, t, b) ==
    IF b = 0 THEN "ZeroDivisionError"
    ELSE IF NSeqReps(n, t, b) < 1 THEN "InsufficientChainLengthError"
    ELSE IF PyMod(n - t, b) # 0 THEN "ValueError"
    ELSE "pass"
Gate(n, t, b) ==
    IF b = 0 THEN "ZeroDivisionError"
    ELSE IF PyMod(n - t, b) # 0 THEN "ValueError"
    ELSE IF NSeqReps(n, t, b) < 1 THEN "InsufficientChainLengthError"
    ELSE "pass"

(***************************************************************************)
(* Step 2: registration.                                                   *)
(***************************************************************************)
\* 2A: zip(iter_rdmols(term_only=False), unique_string(sequence)).
MiddleRegistrations(m, seq) ==
    LET mids == iter_rdmols(m, FALSE)
        keys == unique_string(seq)
    IN  [i \in 1..Min(Len(mids), Len(keys)) |->
            [key |-> keys[i], resname |-> mids[i].resname, frag |-> mids[i].frag,
             ports |-> mids[i].ports]]

\* 2B: term_iters holds an iterator for every resname with a terminal fragment.
HasTermIter(m, resname) ==
    \E i \in 1..Len(iter_rdmols(m, TRUE)) : iter_rdmols(m, TRUE)[i].resname = resname

FirstTermFrag(m, resname) ==
    LET terms == SelectSeq(iter_rdmols(m, TRUE), LAMBDA f : f.resname = resname)
    IN  terms[1]

\* The orientation items registered before the first failing lookup.
RECURSIVE TermsRegistered(_, _, _)
TermsRegistered(m, orient, i) ==
    IF i > Len(orient) \/ ~HasTermIter(m, orient[i].resname) THEN <<>>
    ELSE <<[label |-> orient[i].orient, resname |-> orient[i].resname,
            frag |-> FirstTermFrag(m, orient[i].resname).frag]>>
            \o TermsRegistered(m, orient, i + 1)

Repeat(x, k) == [i \in 1..k |-> x]

\* monomers_selected: the definitions of the library copied, by resname, for
\* every middle and every terminal monomer registered with the chain.
WholeLibrarySelected(m, middles, ends) == 1..Len(m.defs)
monomers_selected(m, middles, ends) ==
    {i \in 1..Len(m.defs) :
        \/ \E k \in 1..Len(middles) : middles[k].resname = i
        \/ \E k \in 1..Len(ends) : ends[k].resname = i}

NoBuild == [n |-> -1, sequence |-> <<>>, add_hydrogens |-> FALSE]

(***************************************************************************)
(* The whole call.  calls lists the chain builder's operations in the      *)
(* order the call invoked them.                                            *)
(***************************************************************************)
BuildLinearPolymer(m, n, seq, addH, emin) ==
    LET term_orient == TermOrient(m)
        n_mono_term == Len(term_orient)
        block_size == Len(seq)
        gate == Gate(n, n_mono_term, block_size)
        middles == MiddleRegistrations(m, seq)
        ends == TermsRegistered(m, term_orient, 1)
        selected == monomers_selected(m, middles, ends)
        registered == Repeat("add_monomer", Len(middles))
                        \o Repeat("add_end_groups", Len(ends))
        base == [status |-> "pending", n_mono_term |-> n_mono_term, middles |-> <<>>,
                 ends |-> <<>>, selected |-> {}, calls |-> <<>>, build |-> NoBuild]
    IN  IF gate # "pass" THEN [base EXCEPT !.status = gate]
        ELSE IF Len(ends) < Len(term_orient)
             THEN [base EXCEPT !.status = "KeyError", !.middles = middles, !.ends = ends,
                               !.selected = selected, !.calls = registered]
        ELSE IF ~is_linear(m.defs, selected)
             THEN [base EXCEPT !.status = "MorphologyError", !.middles = middles,
                               !.ends = ends, !.selected = selected, !.calls = registered]
        ELSE [base EXCEPT !.status = "returned", !.middles = middles, !.ends = ends,
                          !.selected = selected,
                          !.calls = registered \o <<"build", "set_charges">>
                                      \o (IF emin THEN <<"energy_minimize">> ELSE <<>>),
                          !.build = [n |-> NSeqReps(n, n_mono_term, block_size),
                                     sequence |-> seq, add_hydrogens |-> addH]]

Idle == [status |-> "pending", n_mono_term |-> 0, middles |-> <<>>, ends |-> <<>>,
         selected |-> {}, calls |-> <<>>, build |-> NoBuild]

(***************************************************************************)
(* Molecules.  A Mol is a list of atoms and a list of bonds; atom and bond *)
(* ids are positions in these lists (RDKit's ids shifted by one).  An atom *)
(* carries the props the reactors read and write: old_mapno (0: no such    *)
(* prop), the atom map number (0: none), reactant_idx (-1: no such prop),  *)
(* _ReactionDegreeChanged and was_dummy.                                   *)
(***************************************************************************)
BondTypes == {"SINGLE", "DOUBLE"}
NoProp == -1

Atom(old_mapno, ridx, degree_changed, was_dummy) ==
    [old_mapno |-> old_mapno, map_num |-> 0, reactant_idx |-> ridx,
     degree_changed |-> degree_changed, was_dummy |-> was_dummy]

Bond(a, b, type) == [a |-> a, b |-> b, type |-> type]

(***************************************************************************)
(* AnnotatedReaction.  map_nums_to_reactant_nums is the provenance table;  *)
(* each product template lists its bond types by bond id, its modified     *)
(* bonds (mod_bond_ids_to_map_nums) and its new bonds                      *)
(* (new_bond_ids_to_map_nums), both in dict order.                         *)
(***************************************************************************)
Template(map_nums, bond_types, mod_bonds, new_bonds) ==
    [map_nums |-> map_nums, bond_types |-> bond_types,
     mod_bond_ids_to_map_nums |-> mod_bonds, new_bond_ids_to_map_nums |-> new_bonds]

Entry(bond_id, a, b) == [bond_id |-> bond_id, pair |-> <<a, b>>]

\* two reactants, one product: what AdditionReactor accepts
AdditionSchema ==
    [n_reactants |-> 2,
     map_nums_to_reactant_nums |-> (1 :> 0 @@ 2 :> 1),
     templates |-> <<Template(<<1, 2>>, <<"DOUBLE">>, <<Entry(1, 1, 2)>>, <<Entry(1, 1, 2)>>)>>]

\* two reactants, two products whose modified bonds have different targets
ExchangeSchema ==
    [n_reactants |-> 2,
     map_nums_to_reactant_nums |-> (1 :> 0 @@ 2 :> 1 @@ 3 :> 1 @@ 4 :> 0),
     templates |-> <<Template(<<1, 2>>, <<"DOUBLE">>, <<Entry(1, 1, 2)>>, <<>>),
                     Template(<<3, 4>>, <<"SINGLE">>, <<Entry(1, 3, 4)>>, <<>>)>>]

\* one reactant, one product (a rearrangement)
RearrangementSchema ==
    [n_reactants |-> 1,
     map_nums_to_reactant_nums |-> (1 :> 0 @@ 2 :> 0),
     templates |-> <<Template(<<1, 2>>, <<"SINGLE">>, <<Entry(1, 1, 2)>>, <<>>)>>]

Schemas == {AdditionSchema, ExchangeSchema, RearrangementSchema}

GetNumReactantTemplates(schema) == schema.n_reactants
GetNumProductTemplates(schema) == Len(schema.templates)

(***************************************************************************)
(* The engine (RunReactants).  It rejects a reactant list whose length is  *)
(* not the schema's reactant-template count; otherwise it returns at most  *)
(* maxProducts product sets, each with one product per product template.   *)
(* A raw product carries old_mapno on its templated atoms, but neither     *)
(* their atom map number nor their reactant_idx; an atom copied from a     *)
(* reactant keeps the reactant_idx stamped on it.  The bond types and the  *)
(* _ReactionDegreeChanged flags of a raw product are the engine's choice.  *)
(***************************************************************************)
EngineAccepts(schema, n) == n = GetNumReactantTemplates(schema)

RawProduct(tpl, type, degree_changed) ==
    [atoms |-> <<Atom(tpl.map_nums[1], NoProp, degree_changed, TRUE),
                 Atom(tpl.map_nums[2], NoProp, degree_changed, TRUE),
                 Atom(0, 0, FALSE, FALSE)>>,
     bonds |-> <<Bond(1, 2, type), Bond(2, 3, "SINGLE")>>]

RawProductSets(schema) ==
    {[p \in 1..GetNumProductTemplates(schema) |->
            RawProduct(schema.templates[p], c[p][1], c[p][2])] :
        c \in [1..GetNumProductTemplates(schema) -> BondTypes \X BOOLEAN]}

RECURSIVE SeqsOfLen(_, _)
SeqsOfLen(S, k) ==
    IF k = 0 THEN {<<>>}
    ELSE {Append(q, x) : q \in SeqsOfLen(S, k - 1), x \in S}

EngineOutputs(schema, maxProducts) ==
    UNION {SeqsOfLen(RawProductSets(schema), k) : k \in 0..maxProducts}

\* chain.from_iterable(raw_products)
RECURSIVE from_iterable(_)
from_iterable(sets) ==
    IF sets = <<>> THEN <<>> ELSE Head(sets) \o from_iterable(Tail(sets))

(***************************************************************************)
(* Reactor                                                                 *)
(***************************************************************************)
\* _label_reactants: every atom of reactant i gets reactant_idx = i
\* (0-based position in the list).
_label_reactants(rs) == [i \in 1..Len(rs) |-> i - 1]

\* _relabel_reacted_atoms: every atom with an old_mapno prop gets the
\* table's reactant index and its map number back.
RelabelIndexOnly(product, reactant_map_nums) ==
    [product EXCEPT !.atoms = [i \in DOMAIN product.atoms |->
        IF product.atoms[i].old_mapno # 0
        THEN [product.atoms[i] EXCEPT
                !.reactant_idx = product.atoms[i].old_mapno - 1,
                !.map_num = product.atoms[i].old_mapno]
        ELSE product.atoms[i]]]
_relabel_reacted_atoms(product, reactant_map_nums) ==
    [product EXCEPT !.atoms = [i \in DOMAIN product.atoms |->
        IF product.atoms[i].old_mapno # 0
        THEN [product.atoms[i] EXCEPT
                !.reactant_idx = reactant_map_nums[product.atoms[i].old_mapno],
                !.map_num = product.atoms[i].old_mapno]
        ELSE product.atoms[i]]]

\* bondwise.get_bond_by_map_num_pair: the id of the bond between the atoms
\* with these map numbers (0: there is none).
get_bond_by_map_num_pair(product, pair) ==
    LET hits == {b \in DOMAIN product.bonds :
                    {product.atoms[product.bonds[b].a].map_num,
                     product.atoms[product.bonds[b].b].map_num} = {pair[1], pair[2]}}
    IN  IF hits = {} THEN 0 ELSE CHOOSE b \in hits : \A c \in hits : b <= c

\* _sanitize_bond_orders, from the k-th modified bond on.
RECURSIVE SanitizeFrom(_, _, _)
SanitizeFrom(product, tpl, k) ==
    IF k > Len(tpl.mod_bond_ids_to_map_nums) THEN [status |-> "ok", product |-> product]
    ELSE LET e == tpl.mod_bond_ids_to_map_nums[k]
             b == get_bond_by_map_num_pair(product, e.pair)
         IN  IF b = 0 THEN [status |-> "AttributeError", product |-> product]
             ELSE IF ~(product.atoms[product.bonds[b].a].degree_changed
                        /\ product.atoms[product.bonds[b].b].degree_changed)
                  THEN [status |-> "AssertionError", product |-> product]
             ELSE SanitizeFrom(
                    [product EXCEPT !.bonds[b].type = tpl.bond_types[e.bond_id]], tpl, k + 1)

_sanitize_bond_orders(product, tpl) == SanitizeFrom(product, tpl, 1)

\* rdprops.clear_atom_props: no atom keeps a prop (the atom map number is one).
clear_atom_props(product) ==
    [product EXCEPT !.atoms = [i \in DOMAIN product.atoms |->
        [product.atoms[i] EXCEPT !.old_mapno = 0, !.map_num = 0, !.reactant_idx = NoProp,
                                 !.degree_changed = FALSE, !.was_dummy = FALSE]]]

\* The index handed to GetProductTemplate and product_info_maps for the
\* product at 0-based position i of the flattened product list.
TemplateIndex(schema, i) == i

\* The cleanup loop of react from flattened position i (0-based) on; done
\* holds the products cleaned so far, asked the template indices requested.
RECURSIVE Cleanup(_, _, _, _, _, _)
Cleanup(schema, flat, clear, i, done, asked) ==
    IF i >= Len(flat) THEN [status |-> "ok", products |-> done, requested |-> asked]
    ELSE LET relabeled == _relabel_reacted_atoms(flat[i + 1], schema.map_nums_to_reactant_nums)
             t == TemplateIndex(schema, i)
         IN  IF t >= GetNumProductTemplates(schema)
             THEN [status |-> "ValueError: template index", products |-> done,
                   requested |-> Append(asked, t)]
             ELSE LET san == _sanitize_bond_orders(relabeled, schema.templates[t + 1])
                      product == IF clear THEN clear_atom_props(san.product) ELSE san.product
                  IN  IF san.status # "ok"
                      THEN [status |-> san.status, products |-> done,
                            requested |-> Append(asked, t)]
                      ELSE Cleanup(schema, flat, clear, i + 1, Append(done, product),
                                   Append(asked, t))

\* Reactor.react.  The result gives the outcome, the list returned, the
\* template indices the call requested, and the reactants and the flag as
\* the call leaves them.
ReactorReact(schema, rs, flag, raw, clear) ==
    LET labeled == _label_reactants(rs)
        cleaned == Cleanup(schema, from_iterable(raw), clear, 0, <<>>, <<>>)
    IN  IF ~EngineAccepts(schema, Len(rs))
        THEN [status |-> "ValueError: reactant count", products |-> <<>>, requested |-> <<>>,
              reactants |-> labeled, has_reacted |-> flag]
        ELSE IF cleaned.status # "ok"
             THEN [status |-> cleaned.status, products |-> <<>>,
                   requested |-> cleaned.requested,
                   reactants |-> labeled, has_reacted |-> flag]
        ELSE [status |-> "returned", products |-> cleaned.products,
              requested |-> cleaned.requested,
              reactants |-> labeled, has_reacted |-> TRUE]

(***************************************************************************)
(* AdditionReactor                                                         *)
(***************************************************************************)
\* __post_init__
AdditionReactorAccepts(schema) ==
    /\ GetNumReactantTemplates(schema) = 2
    /\ GetNumProductTemplates(schema) = 1

\* AdditionReactor.react: the first product, or None.  kind tells what is
\* returned: "Mol" (value: the product), "None", or "raised".
AdditionReturn(r) ==
    IF r.status # "returned" THEN [kind |-> "raised", value |-> <<>>]
    ELSE IF r.products # <<>> THEN [kind |-> "Mol", value |-> r.products[1]]
    ELSE [kind |-> "None", value |-> <<>>]

ReactorReturn(r) ==
    IF r.status # "returned" THEN [kind |-> "raised", value |-> <<>>]
    ELSE [kind |-> "list", value |-> r.products]

(***************************************************************************)
(* Products of a polymerization.  The engine's product for two monomers    *)
(* has one of the shapes below; the template atoms 1 and 2 are bonded in   *)
(* each.  Which atoms match HEAVY_FORMER_LINKER_QUERY (heavy atoms with    *)
(* the was_dummy prop) is given by the set W.                              *)
(***************************************************************************)
Shapes == {"chain", "ring", "long"}

ShapeAtoms(shape) ==
    IF shape = "chain" THEN <<0, 1, 2, 0>>          \* old_mapno of each atom
    ELSE IF shape = "ring" THEN <<1, 2, 0, 0>>
    ELSE <<0, 0, 1, 2, 0>>

ShapeBonds(shape) ==
    IF shape = "chain" THEN <<<<2, 3>>, <<1, 2>>, <<3, 4>>>>
    ELSE IF shape = "ring" THEN <<<<1, 2>>, <<2, 3>>, <<3, 4>>, <<4, 1>>>>
    ELSE <<<<1, 2>>, <<2, 3>>, <<3, 4>>, <<4, 5>>>>

RawDimer(shape, W, type, degree_changed) ==
    [atoms |-> [i \in DOMAIN ShapeAtoms(shape) |->
                    Atom(ShapeAtoms(shape)[i],
                         IF ShapeAtoms(shape)[i] # 0 THEN NoProp ELSE IF i <= 2 THEN 0 ELSE 1,
                         ShapeAtoms(shape)[i] # 0 /\ degree_changed,
                         i \in W)],
     bonds |-> [b \in DOMAIN ShapeBonds(shape) |->
                    Bond(ShapeBonds(shape)[b][1], ShapeBonds(shape)[b][2], type)]]

\* The schema of a polymerization whose product template lists these new bonds.
PolymerSchema(new_bond_ids) ==
    [AdditionSchema EXCEPT !.templates[1].new_bond_ids_to_map_nums =
        [k \in DOMAIN new_bond_ids |-> Entry(new_bond_ids[k], 1, 2)]]

MaxBondId == 4    \* bond ids a product template may list as new

NewBondLists ==
    {<<>>} \cup {<<b>> : b \in 1..MaxBondId}
           \cup {q \in (1..MaxBondId) \X (1..MaxBondId) : q[1] # q[2]}

PolymerSchemas == {PolymerSchema(q) : q \in NewBondLists}

(***************************************************************************)
(* Graph queries of the engine.                                            *)
(***************************************************************************)
BondIds(mol) == DOMAIN mol.bonds
AtomIds(mol) == DOMAIN mol.atoms

BondsAt(mol, S, v) == {b \in S : mol.bonds[b].a = v \/ mol.bonds[b].b = v}

\* S joins a and b: a and b end one bond of S each, every other atom none or two
Joins(mol, S, a, b) ==
    /\ Cardinality(BondsAt(mol, S, a)) = 1
    /\ Cardinality(BondsAt(mol, S, b)) = 1
    /\ \A v \in AtomIds(mol) \ {a, b} : Cardinality(BondsAt(mol, S, v)) \in {0, 2}

\* the bond sets of the shortest paths between a and b
ShortestPaths(mol, a, b) ==
    LET joining == {S \in SUBSET BondIds(mol) : Joins(mol, S, a, b)}
    IN  {S \in joining : \A T \in joining : Cardinality(S) <= Cardinality(T)}

\* product.GetSubstructMatches(HEAVY_FORMER_LINKER_QUERY), flattened
possible_bridgehead_ids(mol) == {i \in AtomIds(mol) : mol.atoms[i].was_dummy}

\* combinations(possible_bridgehead_ids, 2)
BridgeheadPairs(mol) ==
    {q \in possible_bridgehead_ids(mol) \X possible_bridgehead_ids(mol) : q[1] < q[2]}

\* What bondwise.get_shortest_path_bonds may answer for the bridgehead pairs
\* of a product: for each pair one shortest path (the engine's pick when
\* there are several), or no bond when the atoms are not connected.
RECURSIVE PathAnswersFor(_, _)
PathAnswersFor(mol, pairs) ==
    IF pairs = {} THEN {<<>>}
    ELSE LET q == CHOOSE x \in pairs : TRUE
             sp == ShortestPaths(mol, q[1], q[2])
             opts == IF sp = {} THEN {{}} ELSE sp
         IN  {(q :> o) @@ f : o \in opts, f \in PathAnswersFor(mol, pairs \ {q})}

PathAnswers(mol) == PathAnswersFor(mol, BridgeheadPairs(mol))

\* connected components of the product without the bonds in cut
RECURSIVE Reach(_, _, _)
Reach(mol, cut, S) ==
    LET more == {v \in AtomIds(mol) : \E b \in BondIds(mol) \ cut :
                    \/ mol.bonds[b].a \in S /\ mol.bonds[b].b = v
                    \/ mol.bonds[b].b \in S /\ mol.bonds[b].a = v}
    IN  IF more \subseteq S THEN S ELSE Reach(mol, cut, S \cup more)

SetMin(S) == CHOOSE x \in S : \A y \in S : x <= y

(***************************************************************************)
(* PolymerizationReactor                                                   *)
(***************************************************************************)
\* _inter_monomer_bond_candidates: the new bond ids, in the order of
\* product_info.new_bond_ids_to_map_nums, that lie on the path answered for
\* some pair of bridgehead atoms.  (A bond on the paths of several pairs is
\* generated once per pair; only the first candidate is ever taken.)
IsCandidate(product, paths, bond_id) ==
    \E q \in BridgeheadPairs(product) : bond_id \in paths[q]

_inter_monomer_bond_candidates(schema, product, paths) ==
    LET new == schema.templates[1].new_bond_ids_to_map_nums
        ids == [k \in DOMAIN new |-> new[k].bond_id]
    IN  SelectSeq(ids, LAMBDA b : IsCandidate(product, paths, b))

\* Chem.FragmentOnBonds(mol, bondIndices): the bonds are removed and each
\* end atom gets a dummy atom.  Chem.GetMolFrags(asMols=True): the connected
\* pieces in the order of their lowest atom.  A piece is given by its atoms
\* and bonds of the product and the number of dummy atoms attached to it.
Piece(mol, cut, S) ==
    [atoms |-> S,
     bonds |-> {b \in BondIds(mol) \ cut : mol.bonds[b].a \in S},
     dummies |-> Cardinality({<<b, v>> \in cut \X S :
                                mol.bonds[b].a = v \/ mol.bonds[b].b = v})]

RECURSIVE PiecesFrom(_, _, _)
PiecesFrom(mol, cut, left) ==
    IF left = {} THEN <<>>
    ELSE LET S == Reach(mol, cut, {SetMin(left)})
         IN  <<Piece(mol, cut, S)>> \o PiecesFrom(mol, cut, left \ S)

GetMolFrags(mol, cut) == PiecesFrom(mol, cut, AtomIds(mol))

\* the choice of polymerized_fragments among the candidates
LastCandidate(cands) == cands[Len(cands)]
FirstCandidate(cands) == cands[1]

\* polymerized_fragments
polymerized_fragments(schema, product, paths, separate) ==
    LET cands == _inter_monomer_bond_candidates(schema, product, paths)
    IN  IF cands = <<>>
        THEN [status |-> "NoIntermonomerBondsFound", bond |-> 0, fragments |-> <<>>]
        ELSE LET inter_monomer_bond_idx == FirstCandidate(cands)
             IN  [status |-> "returned", bond |-> inter_monomer_bond_idx,
                  fragments |-> IF separate
                                THEN GetMolFrags(product, {inter_monomer_bond_idx})
                                ELSE <<Piece(product, {inter_monomer_bond_idx},
                                             AtomIds(product))>>]

\* Chem.SanitizeMol(dimer, sanitizeOps=SANITIZE_AS_KEKULE): these products
\* have single and double bonds only, which kekulization leaves as they are.
SanitizeMol(mol) == mol

\* the reactants of the next iteration of propagate
KeepReactants(current, fragments) == current
NextReactants(current, fragments) == fragments

\* One iteration of the loop of propagate, run when the consumer requests an
\* item: react, then (with a dimer) sanitize, fragment and yield.  raw is the
\* engine's answer to this react call and paths its shortest-path answers
\* for the dimer.
PropagateStep(schema, current, flag, raw, paths) ==
    LET r == ReactorReact(schema, [i \in DOMAIN current |-> NoProp], flag, raw, FALSE)
        ret == AdditionReturn(r)
        base == [pc |-> "raised", error |-> r.status, reactants |-> current,
                 has_reacted |-> r.has_reacted, item |-> <<>>,
                 entry |-> [reactants |-> current, outcome |-> "raised"]]
    IN  IF ret.kind = "raised" THEN base
        ELSE IF ret.kind = "None"
             THEN [base EXCEPT !.pc = "done", !.error = "", !.entry.outcome = "no product"]
        ELSE LET dimer == SanitizeMol(ret.value)
                 cut == polymerized_fragments(schema, dimer, paths, TRUE)
             IN  IF cut.status # "returned"
                 THEN [base EXCEPT !.error = cut.status]
                 ELSE [base EXCEPT
                         !.pc = "suspended", !.error = "",
                         !.reactants = NextReactants(current, cut.fragments),
                         !.item = <<[dimer |-> dimer, fragments |-> cut.fragments]>>,
                         !.entry.outcome = "product"]

\* an input monomer, as a molecule of one atom with two open sites
InputMonomer(i) == [atoms |-> {i}, bonds |-> {}, dummies |-> 2]

\* the engine's answers to a react call of propagate (repetitions = 1)
BridgeheadChoices(shape) ==
    {{}, {i \in DOMAIN ShapeAtoms(shape) : ShapeAtoms(shape)[i] # 0},
     DOMAIN ShapeAtoms(shape)}

PropagateEngineOutputs(schema, n) ==
    IF ~EngineAccepts(schema, n) THEN {<<>>}
    ELSE {<<>>} \cup
         UNION {{<<<<RawDimer(shape, W, "SINGLE", d)>>>> :
                    W \in BridgeheadChoices(shape), d \in BOOLEAN} : shape \in Shapes}

(***************************************************************************)
(* Specifications                                                          *)
(***************************************************************************)
NoMonomers == [defs |-> <<>>, term_orient |-> <<>>]
NoCall == [status |-> "pending", products |-> <<>>, requested |-> <<>>,
           kind |-> "pending", value |-> <<>>]

BuildIdle ==
    /\ monomers = NoMonomers
    /\ n_monomers = 0
    /\ sequence = <<>>
    /\ add_Hs = FALSE
    /\ energy_minimize = FALSE
    /\ blp = Idle

ReactIdle ==
    /\ reactor_class = "Reactor"
    /\ rxn_schema = AdditionSchema
    /\ has_reacted = FALSE
    /\ reactants = <<>>
    /\ repetitions = 1
    /\ clear_props = FALSE
    /\ raw_products = <<>>
    /\ rx = NoCall
    /\ before = [reactants |-> <<>>, has_reacted |-> FALSE]

NoMol == [atoms |-> <<>>, bonds |-> <<>>]
NoFragments == [status |-> "pending", bond |-> 0, fragments |-> <<>>]

FragIdle ==
    /\ pf_product = NoMol
    /\ pf_paths = <<>>
    /\ pf_separate = TRUE
    /\ pf = NoFragments

PropIdle ==
    /\ prop_monomers = <<>>
    /\ gen = [pc |-> "none", error |-> "", reactants |-> <<>>]
    /\ requests = 0
    /\ yielded = <<>>
    /\ reaction_log = <<>>

\* build_linear_polymer on any library, length and sequence within the bounds.
InitBuild ==
    /\ monomers \in MonomerGroups
    /\ n_monomers \in 0..MaxN
    /\ sequence \in Strings
    /\ add_Hs = FALSE
    /\ energy_minimize \in BOOLEAN
    /\ blp = Idle
    /\ ReactIdle
    /\ FragIdle
    /\ PropIdle

CallBuildLinearPolymer ==
    /\ blp.status = "pending"
    /\ blp' = BuildLinearPolymer(monomers, n_monomers, sequence, add_Hs, energy_minimize)
    /\ UNCHANGED <<monomers, n_monomers, sequence, add_Hs, energy_minimize, reactVars, fragVars,
                   propVars>>

NextBuild == CallBuildLinearPolymer

SpecBuild == InitBuild /\ [][NextBuild]_vars

\* One call of react on a constructed reactor, fresh or used before, with
\* reactants that are fresh or were labelled by an earlier call.
InitReact ==
    /\ BuildIdle
    /\ FragIdle
    /\ PropIdle
    /\ reactor_class \in {"Reactor", "AdditionReactor"}
    /\ rxn_schema \in Schemas
    /\ reactor_class = "AdditionReactor" => AdditionReactorAccepts(rxn_schema)
    /\ has_reacted \in BOOLEAN
    /\ reactants \in UNION {[1..k -> {NoProp, 0}] : k \in 0..MaxReactants}
    /\ repetitions \in 1..MaxReps
    /\ clear_props \in BOOLEAN
    /\ raw_products \in IF EngineAccepts(rxn_schema, Len(reactants))
                        THEN EngineOutputs(rxn_schema, repetitions)
                        ELSE {<<>>}
    /\ rx = NoCall
    /\ before = [reactants |-> reactants, has_reacted |-> has_reacted]

CallReactorReact ==
    /\ rx.status = "pending"
    /\ reactor_class = "Reactor"
    /\ LET r == ReactorReact(rxn_schema, reactants, has_reacted, raw_products, clear_props)
       IN  /\ reactants' = r.reactants
           /\ has_reacted' = r.has_reacted
           /\ rx' = [status |-> r.status, products |-> r.products, requested |-> r.requested]
                    @@ ReactorReturn(r)
    /\ UNCHANGED <<reactor_class, rxn_schema, repetitions, clear_props, raw_products, before,
                   buildVars, fragVars, propVars>>

CallAdditionReact ==
    /\ rx.status = "pending"
    /\ reactor_class = "AdditionReactor"
    /\ LET r == ReactorReact(rxn_schema, reactants, has_reacted, raw_products, clear_props)
       IN  /\ reactants' = r.reactants
           /\ has_reacted' = r.has_reacted
           /\ rx' = [status |-> r.status, products |-> r.products, requested |-> r.requested]
                    @@ AdditionReturn(r)
    /\ UNCHANGED <<reactor_class, rxn_schema, repetitions, clear_props, raw_products, before,
                   buildVars, fragVars, propVars>>

NextReact == CallReactorReact \/ CallAdditionReact

SpecReact == InitReact /\ [][NextReact]_vars

\* What react returns for a raw product of the engine (clear_props=False).
Reacted1(schema, raw) == ReactorReact(schema, <<NoProp, NoProp>>, FALSE, <<<<raw>>>>, FALSE)

Dimers(schema) ==
    {Reacted1(schema, RawDimer(shape, W, "SINGLE", TRUE)).products[1] :
        shape \in Shapes, W \in SUBSET (1..5)}

\* One call of polymerized_fragments on a product of the reactor's react.
InitFragments ==
    /\ BuildIdle
    /\ PropIdle
    /\ reactor_class = "PolymerizationReactor"
    /\ rxn_schema \in PolymerSchemas
    /\ has_reacted = TRUE
    /\ reactants = <<0, 1>>
    /\ repetitions = 1
    /\ clear_props = FALSE
    /\ raw_products = <<>>
    /\ rx = NoCall
    /\ before = [reactants |-> <<>>, has_reacted |-> FALSE]
    /\ pf_product \in Dimers(rxn_schema)
    /\ pf_paths \in PathAnswers(pf_product)
    /\ pf_separate \in BOOLEAN
    /\ pf = NoFragments

CallPolymerizedFragments ==
    /\ pf.status = "pending"
    /\ pf' = polymerized_fragments(rxn_schema, pf_product, pf_paths, pf_separate)
    /\ UNCHANGED <<pf_product, pf_paths, pf_separate, reactVars, buildVars, propVars>>

NextFragments == CallPolymerizedFragments

SpecFragments == InitFragments /\ [][NextFragments]_vars

\* A consumer drives one generator made by propagate(monomers).
InitPropagate ==
    /\ BuildIdle
    /\ FragIdle
    /\ reactor_class = "PolymerizationReactor"
    /\ rxn_schema \in PolymerSchemas
    /\ has_reacted \in BOOLEAN
    /\ reactants = <<>>
    /\ repetitions = 1
    /\ clear_props = FALSE
    /\ raw_products = <<>>
    /\ rx = NoCall
    /\ before = [reactants |-> <<>>, has_reacted |-> FALSE]
    /\ prop_monomers \in {[i \in 1..k |-> InputMonomer(i)] : k \in 0..MaxReactants}
    /\ gen = [pc |-> "created", error |-> "", reactants |-> prop_monomers]
    /\ requests = 0
    /\ yielded = <<>>
    /\ reaction_log = <<>>

\* next(generator): the body runs up to its next yield, its end or an error.
ConsumerNext ==
    /\ gen.pc \in {"created", "suspended"}
    /\ requests < MaxSteps
    /\ \E raw \in PropagateEngineOutputs(rxn_schema, Len(gen.reactants)) :
       \E paths \in (IF raw = <<>> THEN {<<>>} ELSE PathAnswers(raw[1][1])) :
       \E step \in {PropagateStep(rxn_schema, gen.reactants, has_reacted, raw, paths)} :
            /\ gen' = [pc |-> step.pc, error |-> step.error, reactants |-> step.reactants]
            /\ has_reacted' = step.has_reacted
            /\ yielded' = yielded \o step.item
            /\ reaction_log' = Append(reaction_log, step.entry)
    /\ requests' = requests + 1
    /\ UNCHANGED <<prop_monomers, reactor_class, rxn_schema, reactants, repetitions,
                   clear_props, raw_products, rx, before, buildVars, fragVars>>

NextPropagate == ConsumerNext

SpecPropagate == InitPropagate /\ [][NextPropagate]_vars

(***************************************************************************)
(* Claims about build_linear_polymer, checked under SpecBuild.             *)
(***************************************************************************)
Called == blp.status # "pending"
GateFailures == {"ValueError", "InsufficientChainLengthError", "ZeroDivisionError"}
PassedGate == Called /\ blp.status \notin GateFailures
Invoked(op) == \E i \in 1..Len(blp.calls) : blp.calls[i] = op
MiddleSlots == n_monomers - blp.n_mono_term
\* MiddleSlots = k * Len(sequence) for some k of the given set
TiledBy(ks) == \E k \in ks : k * Len(sequence) = MiddleSlots

\* C1: for a non-empty sequence of length b and t terminals, the call passes
\* the arithmetic gate exactly when n_monomers - t = r * b for some r >= 1,
\* and a call that reaches chain.build asks for exactly that r repeats of
\* the sequence, so that r * b + t = n_monomers.
C1_GateAndRepeatCount ==
    (Called /\ Len(sequence) > 0) =>
        /\ PassedGate <=> TiledBy(1..MaxN)
        /\ Invoked("build") =>
            /\ blp.build.n >= 1
            /\ blp.build.n * Len(sequence) + blp.n_mono_term = n_monomers
            /\ blp.build.sequence = sequence

C1_Witness ==
    /\ blp.status = "returned"
    /\ blp.n_mono_term = 1
    /\ Len(blp.middles) = 2
    /\ Invoked("build")
    /\ Len(sequence) = 2
    /\ blp.build.n = 2

C10_EveryCharacterBound ==
    Invoked("build") =>
        /\ Len(blp.middles) = Cardinality({sequence[i] : i \in 1..Len(sequence)})
        /\ \A i \in 1..Len(blp.middles) :
            /\ blp.middles[i].key = unique_string(sequence)[i]
            /\ blp.middles[i].resname = iter_rdmols(monomers, FALSE)[i].resname
            /\ blp.middles[i].frag = iter_rdmols(monomers, FALSE)[i].frag

\* the resnames of the monomers registered with the chain builder
RegisteredResnames ==
    {blp.middles[i].resname : i \in 1..Len(blp.middles)}
        \cup {blp.ends[i].resname : i \in 1..Len(blp.ends)}
\* the call got through both registration loops
RegistrationDone == PassedGate /\ blp.status # "KeyError"
RegisteredLinear == is_linear(monomers.defs, RegisteredResnames)
LibraryLinear == is_linear(monomers.defs, 1..Len(monomers.defs))
\* op is not invoked before position k of the call log
NotBefore(op, k) == \A i \in 1..Len(blp.calls) : blp.calls[i] = op => i >= k

\* C11: chain.build is invoked only after the arithmetic gate has passed,
\* every registration is made and the monomers registered (the selected set,
\* not the library) are linear-compliant; a call whose registered monomers
\* are not linear-compliant fails with MorphologyError without build, charge
\* normalization or energy minimization; a call whose registered monomers
\* are linear-compliant returns, whatever else the library holds.
C11_BuildOnlyForLinearSelection ==
    /\ RegistrationDone => blp.selected = RegisteredResnames
    /\ Invoked("build") =>
        /\ PassedGate
        /\ RegisteredLinear
        /\ NotBefore("build", Len(blp.middles) + Len(blp.ends) + 1)
        /\ NotBefore("set_charges", Len(blp.middles) + Len(blp.ends) + 2)
        /\ NotBefore("energy_minimize", Len(blp.middles) + Len(blp.ends) + 3)
        /\ Invoked("energy_minimize") <=> energy_minimize
    /\ (RegistrationDone /\ ~RegisteredLinear) =>
        /\ blp.status = "MorphologyError"
        /\ ~Invoked("build")
        /\ ~Invoked("set_charges")
        /\ ~Invoked("energy_minimize")
    /\ (RegistrationDone /\ RegisteredLinear) =>
        /\ blp.status = "returned"
        /\ Invoked("build")

\* a library with a non-linear monomer that was not selected, built and
\* energy-minimized
C11_Witness ==
    /\ blp.status = "returned"
    /\ ~LibraryLinear
    /\ RegisteredLinear
    /\ blp.middles # <<>>
    /\ blp.ends # <<>>
    /\ Invoked("energy_minimize")

(***************************************************************************)
(* Claims about Reactor.react and AdditionReactor.react, checked under     *)
(* SpecReact.                                                              *)
(***************************************************************************)
Reacted == rx.status # "pending"
EngineRan == Reacted /\ EngineAccepts(rxn_schema, Len(before.reactants))
EngineProducts == from_iterable(raw_products)

\* the position, within its own product set, of the product at 0-based
\* position i of the flattened product list
PositionInProductSet(schema, i) == i % GetNumProductTemplates(schema)

\* the atom of a product that stands for the template atom with this map number
AtomOf(tpl, map_num) == CHOOSE k \in DOMAIN tpl.map_nums : tpl.map_nums[k] = map_num

\* every bond the template flags as modified has the template's bond type
HonorsTemplate(product, tpl) ==
    \A k \in DOMAIN tpl.mod_bond_ids_to_map_nums :
        LET e == tpl.mod_bond_ids_to_map_nums[k]
        IN  \E b \in DOMAIN product.bonds :
                /\ {product.bonds[b].a, product.bonds[b].b}
                        = {AtomOf(tpl, e.pair[1]), AtomOf(tpl, e.pair[2])}
                /\ product.bonds[b].type = tpl.bond_types[e.bond_id]

\* C4: for any repetitions >= 1 and any number of product sets, the template
\* and product info used for a product are those of its position within its
\* own product set, and every bond flagged as bond-order-changing has, in the
\* returned product, the bond type of that template's bond.
C4_TemplateOfOwnProductSet ==
    Reacted =>
        /\ \A k \in DOMAIN rx.requested :
            rx.requested[k] = PositionInProductSet(rxn_schema, k - 1)
        /\ \A k \in DOMAIN rx.products :
            HonorsTemplate(rx.products[k],
                           rxn_schema.templates[PositionInProductSet(rxn_schema, k - 1) + 1])

\* C5: after a react call that returns products with clear_props=False, every
\* product atom with a template map number has the reactant index the
\* schema's table gives for that map number, which is the position the
\* contributing reactant was labelled with, and has that map number as its
\* atom map number.
C5_IndexFidelity ==
    (rx.status = "returned" /\ ~clear_props) =>
        \A k \in DOMAIN rx.products : \A a \in DOMAIN rx.products[k].atoms :
            LET atom == rx.products[k].atoms[a]
            IN  atom.old_mapno # 0 =>
                    /\ atom.reactant_idx = rxn_schema.map_nums_to_reactant_nums[atom.old_mapno]
                    /\ atom.reactant_idx + 1 \in DOMAIN reactants
                    /\ reactants[atom.reactant_idx + 1] = atom.reactant_idx
                    /\ atom.map_num = atom.old_mapno

C5_Witness ==
    /\ rx.status = "returned"
    /\ ~clear_props
    /\ rxn_schema = ExchangeSchema
    /\ Len(rx.products) = 2
    /\ before.reactants = <<NoProp, NoProp>>

\* C6: AdditionReactor.react returns the first product as a single molecule
\* whenever the engine yields at least one product, and returns None, not a
\* list and not an exception, whenever the engine yields no product.
C6_SingleProductOrNone ==
    (reactor_class = "AdditionReactor" /\ EngineRan) =>
        /\ EngineProducts # <<>> => rx.kind = "Mol"
        /\ EngineProducts = <<>> => rx.kind = "None"

\* C7: AdditionReactor.react with a number of reactants other than 2 fails,
\* and when it fails no atom of a reactant has been stamped with a reactant
\* index and the has-reacted flag is unchanged.
C7_FailsFast ==
    (reactor_class = "AdditionReactor" /\ Reacted /\ Len(before.reactants) # 2) =>
        /\ rx.kind = "raised"
        /\ reactants = before.reactants
        /\ has_reacted = before.has_reacted

(***************************************************************************)
(* Claims about PolymerizationReactor.polymerized_fragments, checked under *)
(* SpecFragments.                                                          *)
(***************************************************************************)
NewBondIds ==
    [k \in DOMAIN rxn_schema.templates[1].new_bond_ids_to_map_nums |->
        rxn_schema.templates[1].new_bond_ids_to_map_nums[k].bond_id]

\* the bond lies on the shortest path answered for some pair of bridgeheads
OnBridgeheadPath(bond_id) ==
    \E a \in AtomIds(pf_product), b \in AtomIds(pf_product) :
        /\ a < b
        /\ pf_product.atoms[a].was_dummy
        /\ pf_product.atoms[b].was_dummy
        /\ bond_id \in pf_paths[<<a, b>>]

\* C9: polymerized_fragments takes the first new bond, in schema order, that
\* lies on the shortest path between some pair of bridgehead atoms, cuts that
\* bond and no other, and raises NoIntermonomerBondsFound when no new bond
\* qualifies (in particular with fewer than two bridgehead atoms).
C9_FirstCandidateCut ==
    pf.status # "pending" =>
        /\ pf.status = "NoIntermonomerBondsFound"
                <=> ~\E k \in DOMAIN NewBondIds : OnBridgeheadPath(NewBondIds[k])
        /\ Cardinality(possible_bridgehead_ids(pf_product)) < 2
                => pf.status = "NoIntermonomerBondsFound"
        /\ pf.status = "returned" =>
            /\ \E k \in DOMAIN NewBondIds :
                /\ NewBondIds[k] = pf.bond
                /\ OnBridgeheadPath(NewBondIds[k])
                /\ \A j \in 1..(k - 1) : ~OnBridgeheadPath(NewBondIds[j])
            /\ UNION {pf.fragments[i].bonds : i \in DOMAIN pf.fragments}
                    = BondIds(pf_product) \ {pf.bond}
            /\ UNION {pf.fragments[i].atoms : i \in DOMAIN pf.fragments} = AtomIds(pf_product)
            /\ \A i \in DOMAIN pf.fragments, j \in DOMAIN pf.fragments :
                    i # j => pf.fragments[i].atoms \cap pf.fragments[j].atoms = {}

C9_Witness ==
    /\ pf.status = "returned"
    /\ Len(NewBondIds) = 2
    /\ OnBridgeheadPath(NewBondIds[1])
    /\ OnBridgeheadPath(NewBondIds[2])
    /\ pf.bond = NewBondIds[1]
    /\ Len(pf.fragments) = 2

(***************************************************************************)
(* Claims about PolymerizationReactor.propagate, checked under             *)
(* SpecPropagate.                                                          *)
(***************************************************************************)
\* C8: propagate yields one (dimer, fragments) item per reaction that gave a
\* product, in order; step 1 reacts the input monomers and step k+1 reacts
\* exactly the fragments yielded at step k; the sequence ends normally at
\* the first step whose reaction yields no product, with nothing yielded for
\* that step; and no reaction of step k+1 runs before the consumer requests
\* item k+1.
C8_LazyStepwisePropagation ==
    /\ Len(reaction_log) = requests
    /\ Len(yielded) = Cardinality({k \in DOMAIN reaction_log :
                                        reaction_log[k].outcome = "product"})
    /\ \A k \in DOMAIN reaction_log :
        /\ k = 1 => reaction_log[k].reactants = prop_monomers
        /\ k > 1 =>
            /\ reaction_log[k - 1].outcome = "product"
            /\ reaction_log[k].reactants = yielded[k - 1].fragments
    /\ \A k \in DOMAIN yielded : reaction_log[k].outcome = "product"
    /\ gen.pc = "done" <=>
        (reaction_log # <<>> /\ reaction_log[Len(reaction_log)].outcome = "no product")
    /\ gen.pc = "done" => Len(yielded) = Len(reaction_log) - 1 /\ gen.error = ""
    /\ gen.pc = "suspended" => Len(yielded) = Len(reaction_log)

C8_Witness ==
    /\ gen.pc = "done"
    /\ Len(yielded) = 2
    /\ Len(reaction_log) = 3
    /\ yielded[1].fragments # prop_monomers
    /\ yielded[2].fragments # yielded[1].fragments

\* C12: every fragments value yielded by propagate, and so every reactant
\* collection handed to a later reaction, holds exactly two fragments:
\* cutting the chosen intermonomer bond always separates the dimer into two
\* pieces, also when that bond lies in a ring of the product.
C12_AlwaysTwoFragments ==
    /\ \A k \in DOMAIN yielded : Len(yielded[k].fragments) = 2
    /\ \A k \in DOMAIN reaction_log :
        k > 1 => Len(reaction_log[k].reactants) = 2
    /\ gen.pc = "suspended" => Len(gen.reactants) = 2

=============================================================================
